---- MODULE Spec2Model ----
(***************************************************************************)
(* Model of the inertia daemon's deployment lifecycle: the "down" request  *)
(* (downHandler, Deployment.Down, getActiveContainers,                     *)
(* stopActiveContainers) and the "up" request (upHandler), served          *)
(* concurrently, one goroutine per request, over the host's container      *)
(* runtime and the process-wide Deployment record.                         *)
(***************************************************************************)
EXTENDS Naturals, Integers, Sequences, FiniteSets, TLC

(* ------------------------------ bounds --------------------------------- *)

\* Number of project containers the host may run beside the daemon's own.
MaxProject == 2

\* Number of chunks a followed log stream produces before the container stops.
MaxChunks == 2

(* --------------------------- program constants ------------------------- *)

\* Container ids: 0 is the daemon's own container, 1..MaxProject the project's.
DaemonID == 0
ContainerIDs == 0..MaxProject
ProjectIDs == 1..MaxProject

\* container.Names[0]: the daemon's container carries the reserved name.
Names0(c) == IF c = DaemonID THEN "/inertia-daemon" ELSE "/project"

\* The requests in flight, each served by its own goroutine.
Reqs == {1, 2}
Remotes == {"git@a", "git@b"}
Branches == {"master", "dev"}
Secrets == {"s1", "s2"}

\* Errors (nil is "nil").
ErrNoContainers == "ErrNoContainers"
ErrRuntime == "ErrRuntimeUnavailable"
ErrStop == "ErrContainerStop"
ErrPrune == "ErrContainersPrune"
msgNoDeployment == "msgNoDeployment"

\* HTTP statuses.
StatusOK == 200
StatusCreated == 201
StatusBadRequest == 400
StatusNotFound == 404
StatusLengthRequired == 411
StatusPreconditionFailed == 412
StatusInternalServerError == 500

VARIABLES
    running,        \* the runtime's active containers (set of ids)
    deployment,     \* the process-wide Deployment record
    webhookSecret,  \* the process-wide webhook secret
    pc,             \* each request's position in its handler
    kind,           \* "none" | "down" | "up"
    after,          \* the requests already answered when this one arrived
    req,            \* the up request's GitOptions: [branch]
    cfgRemote,      \* RemoteURL of the project configuration read by up
    status,         \* the status value the handler got from GetStatus
    skipUpdate,     \* upHandler's local skipUpdate
    active,         \* what getActiveContainers returned: [containers (as a set), err]
    listing,        \* stopActiveContainers' local containers
    idx,            \* stopActiveContainers' loop position in listing
    ops,            \* calls issued by the request, in order
    result          \* what the client was answered: [code, err, console]

vars == <<running, deployment, webhookSecret, pc, kind, after, req, cfgRemote,
          status, skipUpdate, active, listing, idx, ops, result>>

\* The logs request (logHandler): its locals, its session's sink and source,
\* and the flush routine's position.
VARIABLE logSession

(* ------------------------------ helpers -------------------------------- *)

\* cli.ContainerList: the active containers, in any order.
Listings(S) ==
    {l \in [1..Cardinality(S) -> S] : \A i, j \in 1..Cardinality(S) : l[i] = l[j] => i = j}

Op(o, a, ok) == [op |-> o, arg |-> a, ok |-> ok]

NoStatus == [CommitHash |-> "", Containers |-> {}]
NoResult == [code |-> 0, err |-> "nil", console |-> FALSE]
NoReq == [branch |-> ""]
NoReturn == [containers |-> {}, err |-> "none"]

Range(l) == {l[i] : i \in 1..Len(l)}

\* http.Error: the client alone is answered.
HttpError(msg, code) == [code |-> code, err |-> msg, console |-> FALSE]
\* logger.WriteErr: the client and the console.
WriteErr(msg, code) == [code |-> code, err |-> msg, console |-> TRUE]
\* logger.WriteSuccess
WriteSuccess(code) == [code |-> code, err |-> "nil", console |-> TRUE]

\* Deployment.GetStatus: the record's commit and the project's active
\* containers; the zero value with an error when the read fails.
GetStatus(ok) ==
    IF ok THEN [CommitHash |-> deployment.CommitHash,
                Containers |-> running \ {DaemonID}]
          ELSE NoStatus

\* The requests whose handler has returned.
Answered == {q \in Reqs : pc[q] = "done"}

\* No logs request has arrived.
NoSession ==
    [pc |-> "idle", streamParam |-> "", entriesParam |-> "", container |-> 0,
     lines |-> 0, stream |-> FALSE, entries |-> 0,
     socket |-> "none", peer |-> "connected", writer |-> "none",
     source |-> "none", fetched |-> 0, closes |-> 0,
     stop |-> "none", flush |-> "none", cause |-> "none", produced |-> 0,
     cycles |-> 0,
     calls |-> <<>>, body |-> 0, result |-> NoResult]

(* ------------------------------- Init ---------------------------------- *)

NoDeployment == [CommitHash |-> "", RemoteURL |-> "", Branch |-> ""]

Init ==
    /\ \/ /\ deployment = NoDeployment
          /\ running \in SUBSET {DaemonID}
       \/ /\ deployment = [CommitHash |-> "h1", RemoteURL |-> "git@a", Branch |-> "master"]
          /\ running \in SUBSET ContainerIDs
    /\ webhookSecret = "s1"
    /\ pc = [r \in Reqs |-> "idle"]
    /\ kind = [r \in Reqs |-> "none"]
    /\ after = [r \in Reqs |-> {}]
    /\ req = [r \in Reqs |-> NoReq]
    /\ cfgRemote = [r \in Reqs |-> ""]
    /\ status = [r \in Reqs |-> NoStatus]
    /\ skipUpdate = [r \in Reqs |-> FALSE]
    /\ active = [r \in Reqs |-> NoReturn]
    /\ listing = [r \in Reqs |-> <<>>]
    /\ idx = [r \in Reqs |-> 0]
    /\ ops = [r \in Reqs |-> <<>>]
    /\ result = [r \in Reqs |-> NoResult]
    /\ logSession = NoSession

(* --------------------------- down request ------------------------------ *)

\* A request is routed to downHandler. Requests arrive in slot order.
DownArrive(r) ==
    /\ UNCHANGED logSession
    /\ pc[r] = "idle"
    /\ \A q \in Reqs : q < r => pc[q] # "idle"
    /\ kind' = [kind EXCEPT ![r] = "down"]
    /\ after' = [after EXCEPT ![r] = Answered]
    /\ pc' = [pc EXCEPT ![r] = "d_status"]
    /\ UNCHANGED <<running, deployment, webhookSecret, req, cfgRemote, status,
                   skipUpdate, active, listing, idx, ops, result>>

\* downHandler: the status check that precedes teardown.
DownGetStatus(r) ==
    /\ UNCHANGED logSession
    /\ pc[r] = "d_status"
    /\ \E ok \in BOOLEAN :
        LET st == GetStatus(ok) IN
        /\ status' = [status EXCEPT ![r] = st]
        /\ ops' = [ops EXCEPT ![r] = Append(@, Op("getStatus", deployment, ok))]
        /\ IF Cardinality(st.Containers) = 0
             THEN /\ result' = [result EXCEPT ![r] =
                                  HttpError(msgNoDeployment, StatusPreconditionFailed)]
                  /\ pc' = [pc EXCEPT ![r] = "done"]
             ELSE /\ pc' = [pc EXCEPT ![r] = "d_down"]
                  /\ UNCHANGED result
    /\ UNCHANGED <<running, deployment, webhookSecret, kind, after, req, cfgRemote,
                   skipUpdate, active, listing, idx>>

\* downHandler's answer to the error Deployment.Down returned.
DownAnswer(err) ==
    IF err = ErrNoContainers THEN WriteErr(err, StatusPreconditionFailed)
    ELSE IF err # "nil" THEN WriteErr(err, StatusInternalServerError)
    ELSE WriteSuccess(StatusOK)

\* Deployment.Down returns err to downHandler, which answers and returns.
DownReturn(r, err) ==
    /\ result' = [result EXCEPT ![r] = DownAnswer(err)]
    /\ pc' = [pc EXCEPT ![r] = "done"]

\* getActiveContainers: "Error if only one container (daemon) is active".
\* (variant: the bound off by one)
TooFewMut(containers) == Len(containers) < 1

TooFew(containers) == Len(containers) <= 1

\* getActiveContainers, given cli.ContainerList's answer: (containers, err).
getActiveContainers(l, ok) ==
    IF ~ok THEN [containers |-> <<>>, err |-> ErrRuntime]
    ELSE IF TooFew(l) THEN [containers |-> <<>>, err |-> ErrNoContainers]
    ELSE [containers |-> l, err |-> "nil"]

\* cli.ContainerList: an error, or the active containers in some order.
ContainerList ==
    {[l |-> <<>>, ok |-> FALSE]} \cup {[l |-> l, ok |-> TRUE] : l \in Listings(running)}

\* Deployment.Down: getActiveContainers first; its error ends the teardown.
DownGetActive(r) ==
    /\ UNCHANGED logSession
    /\ pc[r] = "d_down"
    /\ \E a \in ContainerList :
        LET ret == getActiveContainers(a.l, a.ok) IN
        /\ ops' = [ops EXCEPT ![r] = Append(@, Op("list", Range(a.l), a.ok))]
        /\ active' = [active EXCEPT ![r] = [containers |-> Range(ret.containers),
                                            err |-> ret.err]]
        /\ IF ret.err # "nil"
             THEN DownReturn(r, ret.err)
             ELSE /\ pc' = [pc EXCEPT ![r] = "s_list"]
                  /\ UNCHANGED result
    /\ UNCHANGED <<running, deployment, webhookSecret, kind, after, req, cfgRemote,
                   status, skipUpdate, listing, idx>>

\* stopActiveContainers: cli.ContainerList.
StopList(r) ==
    /\ UNCHANGED logSession
    /\ pc[r] = "s_list"
    /\ \E a \in ContainerList :
        /\ ops' = [ops EXCEPT ![r] = Append(@, Op("list", Range(a.l), a.ok))]
        /\ IF ~a.ok
             THEN /\ DownReturn(r, ErrRuntime)
                  /\ UNCHANGED <<listing, idx>>
             ELSE /\ listing' = [listing EXCEPT ![r] = a.l]
                  /\ idx' = [idx EXCEPT ![r] = 1]
                  /\ pc' = [pc EXCEPT ![r] = "s_loop"]
                  /\ UNCHANGED result
    /\ UNCHANGED <<running, deployment, webhookSecret, kind, after, req, cfgRemote,
                   status, skipUpdate, active>>

\* stopActiveContainers: the containers the loop stops.
\* (variant: the name test dropped)
IsProjectContainerMut(c) == TRUE

IsProjectContainer(c) == Names0(c) # "/inertia-daemon"

\* stopActiveContainers: whether the range loop is over.
\* (variant: the loop ends one container early)
LoopDoneMut(l, i) == i >= Len(l)

LoopDone(l, i) == i > Len(l)

\* stopActiveContainers: a failed stop returns at once.
\* (variant: the stop error is not returned)
AbortOnStopErrorMut(ok) == FALSE

AbortOnStopError(ok) == ~ok

\* stopActiveContainers: one iteration of the range loop.
StopLoop(r) ==
    /\ UNCHANGED logSession
    /\ pc[r] = "s_loop"
    /\ ~LoopDone(listing[r], idx[r])
    /\ LET c == listing[r][idx[r]] IN
       IF IsProjectContainer(c)
         THEN \E ok \in BOOLEAN :
                /\ ops' = [ops EXCEPT ![r] = Append(@, Op("stop", c, ok))]
                /\ running' = IF ok THEN running \ {c} ELSE running
                /\ IF AbortOnStopError(ok)
                     THEN /\ DownReturn(r, ErrStop)
                          /\ UNCHANGED idx
                     ELSE /\ idx' = [idx EXCEPT ![r] = @ + 1]
                          /\ UNCHANGED <<pc, result>>
         ELSE /\ idx' = [idx EXCEPT ![r] = @ + 1]
              /\ UNCHANGED <<running, ops, pc, result>>
    /\ UNCHANGED <<deployment, webhookSecret, kind, after, req, cfgRemote, status,
                   skipUpdate, active, listing>>

\* stopActiveContainers: cli.ContainersPrune and return.
StopPrune(r) ==
    /\ UNCHANGED logSession
    /\ pc[r] = "s_loop"
    /\ LoopDone(listing[r], idx[r])
    /\ \E ok \in BOOLEAN :
        /\ ops' = [ops EXCEPT ![r] = Append(@, Op("prune", 0, ok))]
        /\ DownReturn(r, IF ok THEN "nil" ELSE ErrPrune)
    /\ UNCHANGED <<running, deployment, webhookSecret, kind, after, req, cfgRemote,
                   status, skipUpdate, active, listing, idx>>

(* ---------------------------- up request ------------------------------- *)

ErrBody == "ErrReadBody"
ErrJSON == "ErrUnmarshal"
ErrConfig == "Failed to read project configuration"
ErrClient == "ErrNewDockerClient"
ErrInit == "ErrInitialize"
ErrRemoteMismatch == "ErrRemoteMismatch"
ErrDeploy == "ErrDeploy"
ErrRun == "ErrDeployRun"

Finish(r, res) ==
    /\ result' = [result EXCEPT ![r] = res]
    /\ pc' = [pc EXCEPT ![r] = "done"]

\* upHandler: read and unmarshal the body, set the process-wide webhook
\* secret, configure the logger.
UpArrive(r) ==
    /\ UNCHANGED logSession
    /\ pc[r] = "idle"
    /\ \A q \in Reqs : q < r => pc[q] # "idle"
    /\ kind' = [kind EXCEPT ![r] = "up"]
    /\ after' = [after EXCEPT ![r] = Answered]
    /\ \E body \in {"unreadable", "malformed", "ok"} :
         \E b \in Branches : \E s \in Secrets :
           CASE body = "unreadable" ->
                  /\ Finish(r, HttpError(ErrBody, StatusLengthRequired))
                  /\ UNCHANGED <<req, webhookSecret>>
             [] body = "malformed" ->
                  /\ Finish(r, HttpError(ErrJSON, StatusBadRequest))
                  /\ UNCHANGED <<req, webhookSecret>>
             [] body = "ok" ->
                  /\ req' = [req EXCEPT ![r] = [branch |-> b]]
                  /\ webhookSecret' = s
                  /\ pc' = [pc EXCEPT ![r] = "u_config"]
                  /\ UNCHANGED result
    /\ UNCHANGED <<running, deployment, cfgRemote, status, skipUpdate, active,
                   listing, idx, ops>>

\* upHandler: common.ReadProjectConfig.
\* (variant: the failure answered as a success)
ConfigFailAnswerMut == WriteSuccess(StatusCreated)

ConfigFailAnswer == WriteErr(ErrConfig, StatusPreconditionFailed)

UpReadConfig(r) ==
    /\ UNCHANGED logSession
    /\ pc[r] = "u_config"
    /\ \E ok \in BOOLEAN : \E u \in Remotes :
        /\ ops' = [ops EXCEPT ![r] = Append(@, Op("readConfig", 0, ok))]
        /\ IF ok
             THEN /\ cfgRemote' = [cfgRemote EXCEPT ![r] = u]
                  /\ pc' = [pc EXCEPT ![r] = "u_client"]
                  /\ UNCHANGED result
             ELSE /\ Finish(r, ConfigFailAnswer)
                  /\ UNCHANGED cfgRemote
    /\ UNCHANGED <<running, deployment, webhookSecret, kind, after, req, status,
                   skipUpdate, active, listing, idx>>

\* upHandler: containers.NewDockerClient.
UpNewClient(r) ==
    /\ UNCHANGED logSession
    /\ pc[r] = "u_client"
    /\ \E ok \in BOOLEAN :
        /\ ops' = [ops EXCEPT ![r] = Append(@, Op("newClient", 0, ok))]
        /\ IF ok
             THEN /\ pc' = [pc EXCEPT ![r] = "u_status"]
                  /\ UNCHANGED result
             ELSE Finish(r, WriteErr(ErrClient, StatusInternalServerError))
    /\ UNCHANGED <<running, deployment, webhookSecret, kind, after, req, cfgRemote,
                   status, skipUpdate, active, listing, idx>>

\* upHandler: "clone if no git repository exists".
NeedsInitialize(st) == st.CommitHash = ""

\* upHandler: deployment.GetStatus, its error discarded.
UpGetStatus(r) ==
    /\ UNCHANGED logSession
    /\ pc[r] = "u_status"
    /\ \E ok \in BOOLEAN :
        LET st == GetStatus(ok) IN
        /\ status' = [status EXCEPT ![r] = st]
        /\ ops' = [ops EXCEPT ![r] = Append(@, Op("getStatus", deployment, ok))]
        /\ pc' = [pc EXCEPT ![r] = IF NeedsInitialize(st) THEN "u_init" ELSE "u_compare"]
    /\ UNCHANGED <<running, deployment, webhookSecret, kind, after, req, cfgRemote,
                   skipUpdate, active, listing, idx, result>>

\* upHandler: "Project was just pulled! No need to update again."
\* (variant: skipUpdate left false)
SkipUpdateAfterInitializeMut == FALSE

SkipUpdateAfterInitialize == TRUE

InitializeFailAnswer == WriteErr(ErrInit, StatusPreconditionFailed)

\* Deployment.Initialize: clone and first build; the record is written
\* once they succeeded.
Initialized(r) ==
    [CommitHash |-> "h1", RemoteURL |-> cfgRemote[r], Branch |-> req[r].branch]

\* upHandler: deployment.Initialize.
UpInitialize(r) ==
    /\ UNCHANGED logSession
    /\ pc[r] = "u_init"
    /\ \E ok \in BOOLEAN :
        /\ ops' = [ops EXCEPT ![r] = Append(@, Op("initialize", 0, ok))]
        /\ IF ok
             THEN /\ deployment' = Initialized(r)
                  /\ skipUpdate' = [skipUpdate EXCEPT ![r] = SkipUpdateAfterInitialize]
                  /\ pc' = [pc EXCEPT ![r] = "u_compare"]
                  /\ UNCHANGED result
             ELSE /\ Finish(r, InitializeFailAnswer)
                  /\ UNCHANGED <<deployment, skipUpdate>>
    /\ UNCHANGED <<running, webhookSecret, kind, after, req, cfgRemote, status,
                   active, listing, idx>>

\* Deployment.CompareRemotes: nil when the url is the stored one.
CompareRemotes(url) ==
    IF deployment.RemoteURL = url THEN "nil" ELSE ErrRemoteMismatch

CompareFailAnswer(err) == WriteErr(err, StatusPreconditionFailed)

\* upHandler: deployment.CompareRemotes.
UpCompareRemotes(r) ==
    /\ UNCHANGED logSession
    /\ pc[r] = "u_compare"
    /\ LET err == CompareRemotes(cfgRemote[r]) IN
        /\ ops' = [ops EXCEPT ![r] = Append(@, Op("compareRemotes", 0, err = "nil"))]
        /\ IF err # "nil"
             THEN Finish(r, CompareFailAnswer(err))
             ELSE /\ pc' = [pc EXCEPT ![r] = "u_setconfig"]
                  /\ UNCHANGED result
    /\ UNCHANGED <<running, deployment, webhookSecret, kind, after, req, cfgRemote,
                   status, skipUpdate, active, listing, idx>>

\* upHandler: deployment.SetConfig with the requested branch.
UpSetConfig(r) ==
    /\ UNCHANGED logSession
    /\ pc[r] = "u_setconfig"
    /\ deployment' = [deployment EXCEPT !.Branch = req[r].branch]
    /\ ops' = [ops EXCEPT ![r] = Append(@, Op("setConfig", 0, TRUE))]
    /\ pc' = [pc EXCEPT ![r] = "u_deploy"]
    /\ UNCHANGED <<running, webhookSecret, kind, after, req, cfgRemote, status,
                   skipUpdate, active, listing, idx, result>>

\* Deployment.Deploy: the calls it makes, given DeployOptions.SkipUpdate and
\* how far it gets ("update", "build": the step that fails; "ok").
DeployOps(skip, outcome) ==
    (IF skip THEN <<>> ELSE <<Op("update", 0, outcome # "update")>>)
    \o (IF outcome = "update" THEN <<>> ELSE <<Op("build", 0, outcome # "build")>>)

\* (variant: the wrong status)
DeployFailAnswerMut == WriteErr(ErrDeploy, StatusPreconditionFailed)

DeployFailAnswer == WriteErr(ErrDeploy, StatusInternalServerError)

\* upHandler: deployment.Deploy.
UpDeploy(r) ==
    /\ UNCHANGED logSession
    /\ pc[r] = "u_deploy"
    /\ \E outcome \in {"ok", "build"} \cup (IF skipUpdate[r] THEN {} ELSE {"update"}) :
        /\ ops' = [ops EXCEPT ![r] = @ \o DeployOps(skipUpdate[r], outcome)]
        /\ IF outcome = "ok"
             THEN /\ pc' = [pc EXCEPT ![r] = "u_run"]
                  /\ UNCHANGED result
             ELSE Finish(r, DeployFailAnswer)
    /\ UNCHANGED <<running, deployment, webhookSecret, kind, after, req, cfgRemote,
                   status, skipUpdate, active, listing, idx>>

\* upHandler: deploy(), which starts the project's containers.
UpRun(r) ==
    /\ UNCHANGED logSession
    /\ pc[r] = "u_run"
    /\ \E ok \in BOOLEAN :
        /\ ops' = [ops EXCEPT ![r] = Append(@, Op("run", 0, ok))]
        /\ IF ok
             THEN /\ running' = running \cup ProjectIDs
                  /\ Finish(r, WriteSuccess(StatusCreated))
             ELSE /\ Finish(r, WriteErr(ErrRun, StatusInternalServerError))
                  /\ UNCHANGED running
    /\ UNCHANGED <<deployment, webhookSecret, kind, after, req, cfgRemote, status,
                   skipUpdate, active, listing, idx>>

(* ------------------------------- Next ---------------------------------- *)

Next ==
    \E r \in Reqs :
        \/ DownArrive(r)
        \/ DownGetStatus(r)
        \/ DownGetActive(r)
        \/ StopList(r)
        \/ StopLoop(r)
        \/ StopPrune(r)
        \/ UpArrive(r)
        \/ UpReadConfig(r)
        \/ UpNewClient(r)
        \/ UpGetStatus(r)
        \/ UpInitialize(r)
        \/ UpCompareRemotes(r)
        \/ UpSetConfig(r)
        \/ UpDeploy(r)
        \/ UpRun(r)

Spec == Init /\ [][Next]_vars

(* ---------------------------- logs request ----------------------------- *)

allVars == <<vars, logSession>>

ErrParseBool == "ErrParseBool"
ErrEntries == "invalid number of entries"
ErrUpgrade == "ErrUpgrade"
ErrNotFound == "ErrNotFound"
ErrNoSocket == "ErrNoSocket"

\* Query values of the stream and entries parameters, the containers asked
\* for (the last one is unknown to the runtime) and the numbers of lines a
\* container has logged.
StreamParams == {"", "true", "false", "1", "yes"}
EntriesParams == {"", "0", "10", "ten"}
LogContainers == 0..(MaxProject + 1)

\* logHandler: "if entries == 0 { entries = 500 }".
DefaultEntries == 500

LineCounts == {0, 10, 11, DefaultEntries, DefaultEntries + 1}

\* strconv.ParseBool
ParseBool(str) ==
    IF str \in {"1", "t", "T", "TRUE", "true", "True"} THEN [v |-> TRUE, ok |-> TRUE]
    ELSE IF str \in {"0", "f", "F", "FALSE", "false", "False"} THEN [v |-> FALSE, ok |-> TRUE]
    ELSE [v |-> FALSE, ok |-> FALSE]

\* strconv.Atoi, on the values of EntriesParams.
Atoi(str) ==
    IF str = "0" THEN [v |-> 0, ok |-> TRUE]
    ELSE IF str = "10" THEN [v |-> 10, ok |-> TRUE]
    ELSE [v |-> 0, ok |-> FALSE]

\* logHandler: the number of entries to fetch.
EntriesLimit(n) == IF n = 0 THEN DefaultEntries ELSE n

\* logHandler: a request arrives; the stream and entries parameters are parsed.
LogRequest ==
    /\ logSession.pc = "idle"
    /\ \E sp \in StreamParams : \E ep \in EntriesParams :
       \E c \in LogContainers : \E n \in LineCounts :
        LET b == ParseBool(sp)
            e == Atoi(ep)
            in == [logSession EXCEPT !.streamParam = sp, !.entriesParam = ep,
                                     !.container = c, !.lines = n]
        IN logSession' =
             IF sp # "" /\ ~b.ok
               THEN [in EXCEPT !.pc = "done",
                               !.result = [code |-> StatusBadRequest, err |-> ErrParseBool,
                                           console |-> TRUE]]
             ELSE IF ep # "" /\ ~e.ok
               THEN [in EXCEPT !.pc = "done",
                               !.result = HttpError(ErrEntries, StatusBadRequest)]
             ELSE [in EXCEPT !.pc = "l_sink",
                             !.stream = (sp # "" /\ b.v),
                             !.entries = EntriesLimit(IF ep # "" THEN e.v ELSE 0)]
    /\ UNCHANGED vars

\* logHandler: upgrade to a websocket when streaming, and set up the logger.
LogUpgrade ==
    /\ logSession.pc = "l_sink"
    /\ IF logSession.stream
         THEN \E ok \in BOOLEAN :
                logSession' =
                  IF ok THEN [logSession EXCEPT !.pc = "l_fetch", !.socket = "open",
                                                !.calls = @ \o <<"upgrade", "newLogger">>]
                        ELSE [logSession EXCEPT !.pc = "done",
                                                !.calls = Append(@, "upgrade"),
                                                !.result = HttpError(ErrUpgrade,
                                                             StatusInternalServerError)]
         ELSE logSession' = [logSession EXCEPT !.pc = "l_fetch",
                                               !.calls = Append(@, "newLogger")]
    /\ UNCHANGED vars

\* ContainerLogs: the runtime's log query, with Follow set from opts.Stream;
\* the stream holds every line the container has logged.
ContainerLogs(opts, logged) == [lines |-> logged, follow |-> opts.Stream]

\* logHandler: the status of a failed log fetch.
\* (variant: not-found is not told apart)
FetchFailCodeMut(notFound) == StatusInternalServerError

FetchFailCode(notFound) ==
    IF notFound THEN StatusNotFound ELSE StatusInternalServerError

\* logHandler: fetch the container's logs.
LogFetch ==
    /\ logSession.pc = "l_fetch"
    /\ LET called == [logSession EXCEPT !.calls = Append(@, "containerLogs")]
           opts == [Container |-> logSession.container, Stream |-> logSession.stream,
                    Entries |-> logSession.entries]
       IN IF logSession.container \notin running
            THEN logSession' = [called EXCEPT !.pc = "done",
                                  !.result = WriteErr(ErrNotFound, FetchFailCode(TRUE))]
            ELSE \E ok \in BOOLEAN :
                   logSession' =
                     IF ok THEN [called EXCEPT
                                   !.pc = IF logSession.stream THEN "l_socket" ELSE "l_bounded",
                                   !.source = "open",
                                   !.fetched = ContainerLogs(opts, logSession.lines).lines]
                           ELSE [called EXCEPT !.pc = "done",
                                   !.result = WriteErr(ErrRuntime, FetchFailCode(FALSE))]
    /\ UNCHANGED vars

\* logHandler: "defer logs.Close()", run when the handler returns.
\* (variant: the deferred close is missing)
SourceAfterReturnMut(src) == src

SourceAfterReturn(src) == "closed"

\* logHandler, stream false: the source is drained and written as one body.
LogBounded ==
    /\ logSession.pc = "l_bounded"
    /\ logSession' = [logSession EXCEPT
                        !.pc = "done",
                        !.body = logSession.fetched,
                        !.result = [code |-> StatusOK, err |-> "nil", console |-> FALSE],
                        !.source = SourceAfterReturn(@),
                        !.closes = @ + 1]
    /\ UNCHANGED vars

\* logHandler, stream true: the socket writer is asked for; on an error the
\* error is written and the handler goes on; FlushRoutine is called.
LogGetSocketWriter ==
    /\ logSession.pc = "l_socket"
    /\ \E ok \in BOOLEAN :
        logSession' =
          [logSession EXCEPT
             !.pc = "l_flush",
             !.stop = "open",
             !.writer = IF ok THEN "ok" ELSE "nil",
             !.result = IF ok THEN @ ELSE WriteErr(ErrNoSocket, StatusInternalServerError),
             !.calls = @ \o <<"getSocketWriter", "flushRoutine">>,
             !.flush = "reading"]
    /\ UNCHANGED vars

\* FlushRoutine: read the next chunk of the source. The followed stream
\* produces a chunk, or ends when the container stops.
FlushRead ==
    /\ logSession.pc = "l_flush"
    /\ logSession.flush = "reading"
    /\ \E ev \in {"eof"} \cup (IF logSession.produced < MaxChunks THEN {"data"} ELSE {}) :
        logSession' =
          IF ev = "data"
            THEN [logSession EXCEPT !.flush = "writing", !.produced = @ + 1,
                                    !.cycles = IF logSession.peer = "gone" THEN @ + 1 ELSE @]
            ELSE [logSession EXCEPT !.flush = "ended", !.cause = "eof"]
    /\ UNCHANGED vars

\* FlushRoutine: write the chunk to the sink; a write error ends the routine.
FlushWrite ==
    /\ logSession.pc = "l_flush"
    /\ logSession.flush = "writing"
    /\ logSession' =
         IF logSession.writer = "nil"
           THEN [logSession EXCEPT !.flush = "ended", !.cause = "panic"]
         ELSE IF logSession.peer = "gone"
           THEN [logSession EXCEPT !.flush = "ended", !.cause = "sink"]
         ELSE [logSession EXCEPT !.flush = "reading"]
    /\ UNCHANGED vars

\* The client closes its end of the socket.
ClientDisconnect ==
    /\ logSession.socket = "open"
    /\ logSession.peer = "connected"
    /\ logSession.pc \in {"l_fetch", "l_socket", "l_flush"}
    /\ logSession' = [logSession EXCEPT !.peer = "gone"]
    /\ UNCHANGED vars

\* logHandler: FlushRoutine has returned; logger.Close and close(stop) are
\* deferred and the handler returns, which runs them and logs.Close. A write
\* through a nil writer unwinds the handler before they are deferred.
LogReturn ==
    /\ logSession.pc = "l_flush"
    /\ logSession.flush = "ended"
    /\ logSession' =
         IF logSession.cause = "panic"
           THEN [logSession EXCEPT !.pc = "done",
                                   !.source = SourceAfterReturn(@), !.closes = @ + 1]
           ELSE [logSession EXCEPT !.pc = "done", !.stop = "closed",
                                   !.socket = "released",
                                   !.source = SourceAfterReturn(@), !.closes = @ + 1]
    /\ UNCHANGED vars

\* The steps of the handler and of its flush routine.
LogSteps ==
    \/ LogRequest
    \/ LogUpgrade
    \/ LogFetch
    \/ LogBounded
    \/ LogGetSocketWriter
    \/ FlushRead
    \/ FlushWrite
    \/ LogReturn

NextLogs ==
    \/ LogRequest
    \/ LogUpgrade
    \/ LogFetch
    \/ LogBounded
    \/ LogGetSocketWriter
    \/ FlushRead
    \/ FlushWrite
    \/ ClientDisconnect
    \/ LogReturn

SpecLogs == Init /\ [][NextLogs]_allVars

\* The handler's goroutine keeps running.
SpecLogsFair == SpecLogs /\ WF_allVars(LogSteps)

(* ------------------------- properties: teardown ------------------------ *)

HasOp(r, o) == \E i \in 1..Len(ops[r]) : ops[r][i].op = o

\* The containers request r stopped successfully.
StoppedBy(r) ==
    {ops[r][i].arg : i \in {j \in 1..Len(ops[r]) : ops[r][j].op = "stop" /\ ops[r][j].ok}}

\* No up request has started containers.
NothingStarted == \A q \in Reqs : \A i \in 1..Len(ops[q]) : ~(ops[q][i].op = "run" /\ ops[q][i].ok)

\* The call of getActiveContainers a down request made from Deployment.Down
\* is the second call it issued (after the handler's status read).
CalledGetActive(r) == kind[r] = "down" /\ Len(ops[r]) >= 2

\* C1: whatever the order of the listing and wherever the daemon's container
\* stands in it, no stop call is ever issued for the container named
\* /inertia-daemon.
C1_NeverStopsDaemon ==
    \A r \in Reqs : \A i \in 1..Len(ops[r]) :
        ops[r][i].op = "stop" => Names0(ops[r][i].arg) # "/inertia-daemon"

\* A teardown walked a listing with the daemon's container in the middle and
\* stopped the containers on both sides of it.
C1_Witness ==
    \E r \in Reqs :
        /\ Len(listing[r]) = 3
        /\ listing[r][2] = DaemonID
        /\ idx[r] > 3
        /\ StoppedBy(r) = {listing[r][1], listing[r][3]}

\* C2: a teardown whose listing holds at most one container fails with
\* ErrNoContainers (answered 412, apart from every other failure) and issues
\* no stop call and no prune call.
C2_NoContainersNoSideEffect ==
    \A r \in Reqs :
        (CalledGetActive(r) /\ ops[r][2].ok /\ Cardinality(ops[r][2].arg) <= 1)
        => /\ pc[r] = "done"
           /\ active[r].err = ErrNoContainers
           /\ result[r] = WriteErr(ErrNoContainers, StatusPreconditionFailed)
           /\ ~HasOp(r, "stop")
           /\ ~HasOp(r, "prune")
           /\ Len(ops[r]) = 2

\* A teardown listed the daemon's container alone.
C2_Witness ==
    \E r \in Reqs :
        /\ CalledGetActive(r)
        /\ ops[r][2].ok
        /\ ops[r][2].arg = {DaemonID}
        /\ pc[r] = "done"

\* C3: getActiveContainers returns ErrNoContainers for a fleet of the daemon's
\* container alone, returns both containers and no error for the daemon's plus
\* one other, and returns a listing failure as that failure, never as
\* ErrNoContainers.
C3_GetActiveContainers ==
    \A r \in Reqs :
        CalledGetActive(r) =>
            LET call == ops[r][2]
                ret == active[r]
            IN /\ ~call.ok => (ret.err = ErrRuntime /\ ret.err # ErrNoContainers)
               /\ (call.ok /\ call.arg = {DaemonID}) => ret.err = ErrNoContainers
               /\ (call.ok /\ DaemonID \in call.arg /\ Cardinality(call.arg) = 2)
                    => (ret.err = "nil" /\ ret.containers = call.arg)

\* One call saw the daemon's container alone, another the daemon's and one
\* other container.
C3_Witness ==
    \E r, q \in Reqs :
        /\ CalledGetActive(r) /\ ops[r][2].ok /\ ops[r][2].arg = {DaemonID}
        /\ CalledGetActive(q) /\ ops[q][2].ok /\ DaemonID \in ops[q][2].arg
        /\ Cardinality(ops[q][2].arg) = 2
        /\ active[q].err = "nil"

\* C4: a failed stop is the last call the teardown issues (no later stop, no
\* prune), its error is the teardown's result, and the containers stopped
\* before it are left stopped.
C4_AbortOnFirstStopFailure ==
    \A r \in Reqs : \A i \in 1..Len(ops[r]) :
        (ops[r][i].op = "stop" /\ ~ops[r][i].ok)
        => /\ i = Len(ops[r])
           /\ pc[r] = "done"
           /\ result[r].err = ErrStop
           /\ NothingStarted => StoppedBy(r) \cap running = {}

\* One teardown failed on its first stop with a project container still to
\* come in its listing; another stopped a container and failed on the next.
C4_Witness ==
    \E r, q \in Reqs :
        /\ result[r].err = ErrStop
        /\ StoppedBy(r) = {}
        /\ idx[r] < Len(listing[r])
        /\ \E k \in (idx[r] + 1)..Len(listing[r]) : listing[r][k] # DaemonID
        /\ result[q].err = ErrStop
        /\ StoppedBy(q) # {}
        /\ NothingStarted

\* C5: prune is issued at most once, as the teardown's last call, after a
\* successful stop of every non-daemon container of the listing; when it
\* fails its error is the teardown's result and those containers stay stopped.
C5_PruneOnceAfterAllStopped ==
    \A r \in Reqs :
        LET P == {i \in 1..Len(ops[r]) : ops[r][i].op = "prune"}
            Fleet == Range(listing[r]) \ {DaemonID}
        IN /\ Cardinality(P) <= 1
           /\ \A i \in P :
                /\ i = Len(ops[r])
                /\ \A c \in Fleet : \E j \in 1..(i - 1) : ops[r][j] = Op("stop", c, TRUE)
                /\ pc[r] = "done"
                /\ result[r].err = (IF ops[r][i].ok THEN "nil" ELSE ErrPrune)
                /\ NothingStarted => Fleet \cap running = {}

\* A teardown stopped two project containers and then failed to prune.
C5_Witness ==
    \E r \in Reqs :
        /\ HasOp(r, "prune")
        /\ result[r].err = ErrPrune
        /\ Cardinality(StoppedBy(r)) = 2
        /\ StoppedBy(r) \cap running = {}

(* ------------------------ properties: down twice ----------------------- *)

\* Request 2 is a down that arrived after down request 1 was answered, on a
\* host running the daemon's container and at least one project container,
\* and no call of request 1 failed.
DownTwiceInARow ==
    /\ kind[1] = "down" /\ kind[2] = "down"
    /\ 1 \in after[2]
    /\ \A i \in 1..Len(ops[1]) : ops[1][i].ok
    /\ status[1].Containers # {}
    /\ Len(ops[1]) >= 2 /\ DaemonID \in ops[1][2].arg

\* The first of two downs in a row stopped exactly the host's project
\* containers and was answered 200.
FirstDownStoppedAll ==
    /\ StoppedBy(1) = status[1].Containers
    /\ result[1] = WriteSuccess(StatusOK)
    /\ running = {DaemonID}

\* C6 as claimed: the second down stops nothing and is answered with the
\* ErrNoContainers precondition failure.
C6_SecondDownNoContainers ==
    (DownTwiceInARow /\ pc[2] = "done")
    => /\ FirstDownStoppedAll
       /\ StoppedBy(2) = {}
       /\ result[2] = WriteErr(ErrNoContainers, StatusPreconditionFailed)

\* C6 amended: the first down stops exactly the N project containers and is
\* answered 200; the second stops nothing and is answered 412 by the handler's
\* status check (no deployment active), before teardown is called.
C6_SecondDownNoDeployment ==
    (DownTwiceInARow /\ pc[2] = "done")
    => /\ FirstDownStoppedAll
       /\ StoppedBy(2) = {}
       /\ result[2] = HttpError(msgNoDeployment, StatusPreconditionFailed)
       /\ ~HasOp(2, "list")

\* Two downs in a row were answered, the first having stopped two containers.
C6_Witness ==
    /\ DownTwiceInARow
    /\ pc[2] = "done"
    /\ Cardinality(StoppedBy(1)) = 2
    /\ ops[2][1].ok

(* --------------------------- properties: up ---------------------------- *)

\* The status read of up request r, once it happened: the call it is in ops.
StatusReads(r) ==
    {i \in 1..Len(ops[r]) : kind[r] = "up" /\ ops[r][i].op = "getStatus"}

\* C7: an up request that resolved its state against an empty CommitHash goes
\* to Initialize, carries SkipUpdate into the deploy, and never runs Update.
C7_EmptyHashInitializesAndSkipsUpdate ==
    \A r \in Reqs : \A i \in StatusReads(r) :
        ops[r][i].arg.CommitHash = ""
        => /\ pc[r] = "u_init" \/ HasOp(r, "initialize")
           /\ ~HasOp(r, "update")
           /\ pc[r] \in {"u_compare", "u_setconfig", "u_deploy", "u_run"} => skipUpdate[r]
           /\ HasOp(r, "build") => skipUpdate[r]

\* An up request on a host without a deployment initialized it and was
\* answered 201 after a deploy that ran no update.
C7_Witness ==
    \E r \in Reqs : \E i \in StatusReads(r) :
        /\ ops[r][i].ok
        /\ ops[r][i].arg.CommitHash = ""
        /\ HasOp(r, "initialize")
        /\ HasOp(r, "build")
        /\ result[r] = WriteSuccess(StatusCreated)

\* C8 as claimed: an up request that resolved its state against a non-empty
\* CommitHash and a stored RemoteURL other than the requested one is answered
\* with RemoteMismatch (412) and runs no Initialize, Update, build or run.
C8_RemoteMismatchNoSideEffect ==
    \A r \in Reqs : \A i \in StatusReads(r) :
        (ops[r][i].arg.CommitHash # "" /\ ops[r][i].arg.RemoteURL # cfgRemote[r])
        => /\ ~HasOp(r, "initialize") /\ pc[r] # "u_init"
           /\ ~HasOp(r, "update")
           /\ ~HasOp(r, "build")
           /\ ~HasOp(r, "run")
           /\ pc[r] = "done" => result[r] = WriteErr(ErrRemoteMismatch, StatusPreconditionFailed)

\* Up request r has read an empty CommitHash and has not yet finished the
\* Initialize that writes the record.
InResolveSection(r) == kind[r] = "up" /\ pc[r] = "u_init"

\* Up request r really observed an empty CommitHash and executed Initialize.
InitializedFromEmpty(r) ==
    /\ HasOp(r, "initialize")
    /\ \E i \in StatusReads(r) : ops[r][i].ok /\ ops[r][i].arg.CommitHash = ""

\* C9 as claimed: up requests are serialized: never are two of them between
\* reading an empty CommitHash and writing the record, and never have two of
\* them both observed the empty CommitHash and both executed Initialize.
C9_UpSerialized ==
    \A r, q \in Reqs :
        r # q => /\ ~(InResolveSection(r) /\ InResolveSection(q))
                 /\ ~(InitializedFromEmpty(r) /\ InitializedFromEmpty(q))

\* The steps of an up request whose failure ends it (the status read's error
\* is discarded by the handler).
UpSteps == {"readConfig", "newClient", "initialize", "compareRemotes", "setConfig",
            "update", "build", "run"}

AllStepsSucceeded(r) ==
    /\ \A i \in 1..Len(ops[r]) : ops[r][i].op \in UpSteps => ops[r][i].ok
    /\ Len(ops[r]) > 0 /\ ops[r][Len(ops[r])].op = "run"

\* C10 as claimed: 201 only when every step succeeded; 412 exactly for
\* RemoteMismatch or a configuration read failure; 500 for the client,
\* Initialize, Deploy and deploy() failures.
C10_StatusAsClaimed ==
    \A r \in Reqs :
        (kind[r] = "up" /\ pc[r] = "done")
        => /\ result[r].code = StatusCreated => AllStepsSucceeded(r)
           /\ result[r].code = StatusPreconditionFailed
                <=> result[r].err \in {ErrRemoteMismatch, ErrConfig}
           /\ result[r].err \in {ErrClient, ErrInit, ErrDeploy, ErrRun}
                => result[r].code = StatusInternalServerError

\* C10 amended: 201 only when every step succeeded; 412 exactly for a
\* configuration read failure, an Initialize failure or RemoteMismatch; 500
\* exactly for the client, Deploy and deploy() failures.
C10_StatusOfUp ==
    \A r \in Reqs :
        (kind[r] = "up" /\ pc[r] = "done")
        => /\ result[r].code = StatusCreated <=> AllStepsSucceeded(r)
           /\ result[r].code = StatusPreconditionFailed
                <=> result[r].err \in {ErrConfig, ErrInit, ErrRemoteMismatch}
           /\ result[r].code = StatusInternalServerError
                <=> result[r].err \in {ErrClient, ErrDeploy, ErrRun}
           /\ result[r].code = StatusCreated => result[r].err = "nil"

\* One up request was answered 412 for a failed Initialize, another 500 for a
\* failed deploy.
C10_Witness ==
    \E r, q \in Reqs :
        /\ kind[r] = "up" /\ result[r] = WriteErr(ErrInit, StatusPreconditionFailed)
        /\ kind[q] = "up" /\ result[q] = WriteErr(ErrDeploy, StatusInternalServerError)

(* ------------------- properties: status and sequencing ----------------- *)

\* A call of down request r failed.
SomeCallFailed(r) == \E i \in 1..Len(ops[r]) : ~ops[r][i].ok

\* C11 as claimed: down answers 200 only when every stop and the prune
\* succeeded, 412 only for NoContainers or a host whose status read found no
\* deployment, and 500 for every other failure, a failed status read or
\* listing included.
C11_DownStatus ==
    \A r \in Reqs :
        (kind[r] = "down" /\ pc[r] = "done")
        => /\ result[r].code = StatusOK => (~SomeCallFailed(r) /\ HasOp(r, "prune"))
           /\ result[r].code = StatusPreconditionFailed
                => \/ result[r].err = ErrNoContainers
                   \/ (result[r].err = msgNoDeployment /\ ops[r][1].ok)
           /\ (SomeCallFailed(r) /\ result[r].err # ErrNoContainers)
                => result[r].code = StatusInternalServerError

\* C16 as claimed: every request answered with a failure also wrote a line
\* on the console.
C16_FailureOnBothSinks ==
    \A r \in Reqs :
        (pc[r] = "done" /\ result[r].code >= 400) => result[r].console

\* The position of a call in the sequence of an up request.
StepRank(o) ==
    CASE o = "readConfig" -> 1
      [] o = "newClient" -> 2
      [] o = "getStatus" -> 3
      [] o = "initialize" -> 4
      [] o = "compareRemotes" -> 5
      [] o = "setConfig" -> 6
      [] o = "update" -> 7
      [] o = "build" -> 8
      [] o = "run" -> 9

\* The calls of up request r were made in the fixed order.
UpInOrder(r) ==
    \A i, j \in 1..Len(ops[r]) :
        i < j => StepRank(ops[r][i].op) < StepRank(ops[r][j].op)

\* A failed step of up request r is its last call, and the request was
\* answered with a failure.
HaltedOnFailure(r) ==
    \A i \in 1..Len(ops[r]) :
        (ops[r][i].op \in UpSteps /\ ~ops[r][i].ok)
        => /\ i = Len(ops[r])
           /\ pc[r] = "done"
           /\ result[r].code >= 400

\* Up request r goes through Initialize exactly when the status it read has
\* an empty CommitHash.
InitializeWhenEmpty(r) ==
    StatusReads(r) # {}
    => ((pc[r] = "u_init" \/ HasOp(r, "initialize")) <=> status[r].CommitHash = "")

\* An answered request makes no further call and gets no second answer.
AnsweredOnce ==
    \A r \in Reqs :
        result[r] # NoResult => (result'[r] = result[r] /\ ops'[r] = ops[r])

\* C17: an up request makes its calls in the fixed order, with Initialize
\* exactly when the CommitHash read is empty; a failed step is the last one;
\* 201 is answered only after every step succeeded; a request is answered
\* once.
C17_UpSequence ==
    /\ [](\A r \in Reqs :
            kind[r] = "up"
            => /\ UpInOrder(r)
               /\ HaltedOnFailure(r)
               /\ InitializeWhenEmpty(r)
               /\ result[r].code = StatusCreated
                    => (AllStepsSucceeded(r) /\ pc[r] = "done"
                        /\ result[r] = WriteSuccess(StatusCreated)))
    /\ [][AnsweredOnce]_vars

\* One up request halted at a failed update after setting the config, another
\* went through Initialize and every later step and was answered 201.
C17_Witness ==
    \E r, q \in Reqs :
        /\ kind[r] = "up" /\ HasOp(r, "setConfig")
        /\ ops[r][Len(ops[r])] = Op("update", 0, FALSE)
        /\ result[r].code = StatusInternalServerError
        /\ kind[q] = "up" /\ HasOp(q, "initialize")
        /\ result[q] = WriteSuccess(StatusCreated)

\* Call a of up request r precedes its call b.
Precedes(r, a, b) ==
    \E i, j \in 1..Len(ops[r]) : i < j /\ ops[r][i].op = a /\ ops[r][j].op = b

\* C18 as claimed: an up request handled while the CommitHash is non-empty
\* and the remote matches does not invoke Initialize, sets the Branch before
\* the update starts, and runs the update.
C18_ExistingDeploymentUpdates ==
    \A r \in Reqs : \A i \in StatusReads(r) :
        (ops[r][i].arg.CommitHash # "" /\ ops[r][i].arg.RemoteURL = cfgRemote[r])
        => /\ ~HasOp(r, "initialize") /\ pc[r] # "u_init"
           /\ ~skipUpdate[r]
           /\ HasOp(r, "build") => HasOp(r, "update")
           /\ HasOp(r, "update") => Precedes(r, "setConfig", "update")

\* C20 as claimed: up goes to Initialize only when the record's CommitHash
\* was empty at the status read, and down answers "no deployment" only after
\* a status read that succeeded.
C20_StatusErrorNotEmpty ==
    \A r \in Reqs :
        /\ (kind[r] = "up" /\ (pc[r] = "u_init" \/ HasOp(r, "initialize")))
            => \E i \in StatusReads(r) : ops[r][i].arg.CommitHash = ""
        /\ (kind[r] = "down" /\ result[r].err = msgNoDeployment) => ops[r][1].ok

(* -------------------------- properties: logs --------------------------- *)

\* The stream or entries value of the request does not parse.
Malformed ==
    \/ logSession.streamParam # "" /\ ~ParseBool(logSession.streamParam).ok
    \/ logSession.entriesParam # "" /\ ~Atoi(logSession.entriesParam).ok

\* The handler called the runtime for the logs and got an error.
FetchFailed ==
    /\ Len(logSession.calls) > 0
    /\ logSession.calls[Len(logSession.calls)] = "containerLogs"
    /\ logSession.source = "none"

\* C12 as claimed: with stream=false at most EntriesLimit lines are fetched
\* and returned, 500 when entries is absent or zero and the parameter's
\* value otherwise.
C12_BoundedFetch ==
    (logSession.pc \notin {"idle", "l_sink"} /\ ~Malformed /\ ~logSession.stream)
    => /\ logSession.entries =
            (IF logSession.entriesParam \in {"", "0"} THEN DefaultEntries
             ELSE Atoi(logSession.entriesParam).v)
       /\ logSession.fetched <= logSession.entries
       /\ logSession.body <= logSession.entries

\* C13: a malformed stream or entries value is answered 400 with no logger,
\* upgrade or runtime call; a failed fetch is answered 404 for a container
\* the runtime does not know and 500 otherwise.
C13_LogsErrors ==
    /\ (logSession.pc # "idle" /\ Malformed)
        => /\ logSession.pc = "done"
           /\ logSession.result.code = StatusBadRequest
           /\ logSession.calls = <<>>
           /\ logSession.socket = "none"
           /\ logSession.source = "none"
    /\ logSession.result.code = StatusBadRequest => Malformed
    /\ FetchFailed
        => /\ logSession.pc = "done"
           /\ logSession.result.code =
                (IF logSession.container \notin running
                   THEN StatusNotFound ELSE StatusInternalServerError)

\* A live-mode request for a container the runtime does not know was
\* answered 404.
C13_Witness ==
    /\ logSession.stream
    /\ FetchFailed
    /\ logSession.container \notin running
    /\ logSession.result = WriteErr(ErrNotFound, StatusNotFound)

\* The session's sink was closed by its peer while the flush routine runs.
SinkClosedMidStream ==
    /\ logSession.peer = "gone"
    /\ logSession.flush \in {"reading", "writing"}

\* The flush routine has ended, the handler returned and the source is closed.
FlushEndedSourceClosed ==
    /\ logSession.flush = "ended"
    /\ logSession.pc = "done"
    /\ logSession.source = "closed"

\* C14: once the sink of a live-mode session is closed by its peer, the
\* flush routine begins at most one more read/write cycle, it ends, and the
\* source is closed when the handler returns.
C14_FlushEndsAfterSinkClosed ==
    /\ [](logSession.cycles <= 1)
    /\ []((logSession.pc = "done" /\ logSession.flush = "ended")
            => logSession.source = "closed")
    /\ (SinkClosedMidStream ~> FlushEndedSourceClosed)

\* The sink was closed while the source was producing; the routine read one
\* more chunk, failed to write it and ended, and the source was closed.
C14_Witness ==
    /\ logSession.peer = "gone"
    /\ logSession.writer = "ok"
    /\ logSession.cycles = 1
    /\ logSession.cause = "sink"
    /\ FlushEndedSourceClosed

\* C15 as claimed: a live-mode request that acquired the socket has, when
\* its handler returns, released the socket and closed the source it opened,
\* exactly once.
C15_SessionReleased ==
    (logSession.pc = "done" /\ logSession.socket # "none")
    => /\ logSession.socket = "released"
       /\ logSession.source # "none"
            => (logSession.source = "closed" /\ logSession.closes = 1)

\* C19 as claimed: the flush routine runs only with a socket writer that was
\* obtained; when obtaining it fails the routine is never run.
C19_FlushOnlyWithWriter ==
    /\ logSession.flush # "none" => logSession.writer = "ok"
    /\ logSession.writer = "nil"
        => (logSession.flush = "none" /\ ~(\E i \in 1..Len(logSession.calls) :
                                            logSession.calls[i] = "flushRoutine"))

(* ---------------------- properties: frame of up ------------------------ *)

\* Up request r is the only request that has arrived.
OnlyRequest(r) == kind[r] = "up" /\ \A q \in Reqs : q # r => kind[q] = "none"

\* Up request r was rejected with a precondition failure: the
\* project-configuration read failed, or the remote does not match.
RejectedOnPrecondition(r) ==
    /\ kind[r] = "up"
    /\ pc[r] = "done"
    /\ result[r].code = StatusPreconditionFailed
    /\ result[r].err \in {ErrConfig, ErrRemoteMismatch}

\* The Deployment records a host starts with.
InitialRecords ==
    {NoDeployment, [CommitHash |-> "h1", RemoteURL |-> "git@a", Branch |-> "master"]}

\* C21 as claimed: after an up request, the only request made, was rejected
\* with a precondition failure, the Deployment record and the process-wide
\* webhook secret have the values they had before the request.
C21_RejectedUpChangesNothing ==
    \A r \in Reqs :
        (OnlyRequest(r) /\ RejectedOnPrecondition(r))
        => /\ deployment \in InitialRecords
           /\ webhookSecret = "s1"

====
